---- MODULE Spec2Model ----
(***************************************************************************)
(* XMODEM byte receive primitive (xmodem_io_getc) of the QMSI firmware     *)
(* manager: one caller context polling a volatile cell that is written by  *)
(* two interrupt callbacks, the UART read completion and the RTC alarm.    *)
(* Each C statement of xmodem_io_getc is one atomic step of the caller;    *)
(* the two interrupts may run between any two steps.                       *)
(***************************************************************************)
EXTENDS Integers, Sequences, FiniteSets

\* ---------------------------------------------------------------- bounds
\* Number of xmodem_io_getc calls the caller issues.
MaxCalls == 2

\* Byte values the line can deliver (0x41, 0x42).
Bytes == {65, 66}

\* ------------------------------------------------------------- constants
EIO == 5
ETIME == 62

STATE_UART_ERROR == -EIO
STATE_TIMEOUT == -ETIME
STATE_UART_RX_DONE == 1
STATE_WAITING == 2

\* Value of the zero-initialised static cell before the first call.
STATE_ZERO_INIT == 0

\* Negative fault codes the UART driver may hand to the callback.
ErrCodes == {-EIO, -EIO - 1}

VARIABLES
    pc,                  \* caller position: "idle" or the next statement
    xmodem_io_rx_state,  \* static volatile enum rx_state
    in_byte,             \* static uint8_t in_byte (UART transfer buffer)
    alarm_en,            \* rtc_cfg.alarm_en
    rtc_alarm,           \* RTC hardware: alarm programmed and not yet expired
    uart_read,           \* UART hardware: an asynchronous read is pending
    retv,                \* local of xmodem_io_getc
    ch,                  \* the caller's output byte *ch
    calls,               \* history: number of calls started
    events,              \* history: callbacks run since the current call began
    ch_writes,           \* history: stores to *ch in the current call
    ch0,                 \* history: *ch at entry of the current call
    rets,                \* history: <<status, *ch>> of every returned call
    alarm_owner,         \* history: call that programmed the alarm
    read_owner,          \* history: call that started the pending read
    steps                \* history: driver calls and first poll of the call

vars == <<pc, xmodem_io_rx_state, in_byte, alarm_en, rtc_alarm, uart_read,
          retv, ch, calls, events, ch_writes, ch0, rets, alarm_owner,
          read_owner, steps>>

hist == <<calls, events, ch_writes, ch0, rets, alarm_owner, read_owner,
          steps>>

\* Where the caller is relative to the reset (line 128) and to the read of
\* the cell that leaves the poll loop (line 132).
Phase(p) ==
    CASE p \in {"rtc_arm", "reset"} -> "pre"
      [] p \in {"read", "poll"} -> "wait"
      [] p \in {"switch", "disable", "rtc_disarm", "ret"} -> "post"
      [] OTHER -> "idle"

\* ------------------------------------------------------------- callbacks
uart_callback_passthrough(error) ==
    IF error < 0 THEN error ELSE STATE_UART_RX_DONE

\* uart_callback: the value it stores in xmodem_io_rx_state.
uart_callback(error) ==
    IF error < 0 THEN STATE_UART_ERROR ELSE STATE_UART_RX_DONE

rtc_callback_error == STATE_UART_ERROR

\* rtc_callback: the value it stores in xmodem_io_rx_state.
rtc_callback == STATE_TIMEOUT

\* ------------------------------------------------- statements of getc
ResetKeep == xmodem_io_rx_state

\* line 128: the value the cell is reset to.
ResetValue == STATE_WAITING

ChWrittenFromCell(r) == xmodem_io_rx_state = STATE_UART_RX_DONE

ChWrittenAlsoOnTimeout(r) == r \in {STATE_UART_RX_DONE, STATE_TIMEOUT}

\* lines 135-149: the switch stores in_byte to *ch for this case only.
ChWritten(r) == r = STATE_UART_RX_DONE

ReadTerminatedOnAnyFailure(r) == r # STATE_UART_RX_DONE

ReadTerminatedNever(r) == FALSE

\* lines 136-138: qm_uart_irq_read_terminate is called for this case only.
ReadTerminated(r) == r = STATE_TIMEOUT

PollExitsOnlyOnByte(r) == r = STATE_UART_RX_DONE

PollExitsAlways(r) == TRUE

\* line 132: the poll loop is left when the value read is not STATE_WAITING.
PollExits(r) == r # STATE_WAITING

AlarmEnKeptOnTimeout(r) == r = STATE_TIMEOUT

\* line 152: rtc_cfg.alarm_en on exit, whatever the outcome.
AlarmEnAtExit(r) == FALSE

Init ==
    /\ pc = "idle"
    /\ xmodem_io_rx_state = STATE_ZERO_INIT
    /\ in_byte = 0
    /\ alarm_en = FALSE
    /\ rtc_alarm = FALSE
    /\ uart_read = FALSE
    /\ retv = 0
    /\ ch = 0
    /\ calls = 0
    /\ events = <<>>
    /\ ch_writes = 0
    /\ ch0 = 0
    /\ rets = <<>>
    /\ alarm_owner = 0
    /\ read_owner = 0
    /\ steps = <<>>

\* line 124: entry, rtc_cfg.alarm_en = true
GetcEnter ==
    /\ pc = "idle"
    /\ calls < MaxCalls
    /\ alarm_en' = TRUE
    /\ pc' = "rtc_arm"
    /\ calls' = calls + 1
    /\ events' = <<>>
    /\ ch_writes' = 0
    /\ ch0' = ch
    /\ steps' = <<>>
    /\ UNCHANGED <<xmodem_io_rx_state, in_byte, rtc_alarm, uart_read, retv,
                   ch, rets, alarm_owner, read_owner>>

\* line 125: qm_rtc_set_config(QM_RTC_0, &rtc_cfg) programs the alarm
GetcArm ==
    /\ pc = "rtc_arm"
    /\ rtc_alarm' = alarm_en
    /\ alarm_owner' = calls
    /\ steps' = Append(steps, "arm")
    /\ pc' = "reset"
    /\ UNCHANGED <<xmodem_io_rx_state, in_byte, alarm_en, uart_read, retv,
                   ch, calls, events, ch_writes, ch0, rets, read_owner>>

\* line 128: xmodem_io_rx_state = STATE_WAITING
GetcReset ==
    /\ pc = "reset"
    /\ xmodem_io_rx_state' = ResetValue
    /\ pc' = "read"
    /\ UNCHANGED <<in_byte, alarm_en, rtc_alarm, uart_read, retv, ch, hist>>

\* line 129: qm_uart_irq_read(DM_CONFIG_UART, &uart_transfer)
GetcRead ==
    /\ pc = "read"
    /\ uart_read' = TRUE
    /\ read_owner' = calls
    /\ steps' = Append(steps, "read")
    /\ pc' = "poll"
    /\ UNCHANGED <<xmodem_io_rx_state, in_byte, alarm_en, rtc_alarm, retv,
                   ch, calls, events, ch_writes, ch0, rets, alarm_owner>>

\* line 132: retv = xmodem_io_rx_state, retv == STATE_WAITING
GetcPoll ==
    /\ pc = "poll"
    /\ retv' = xmodem_io_rx_state
    /\ pc' = IF PollExits(xmodem_io_rx_state) THEN "switch" ELSE "poll"
    /\ steps' = IF \E i \in DOMAIN steps : steps[i] = "poll"
                THEN steps ELSE Append(steps, "poll")
    /\ UNCHANGED <<xmodem_io_rx_state, in_byte, alarm_en, rtc_alarm,
                   uart_read, ch, calls, events, ch_writes, ch0, rets,
                   alarm_owner, read_owner>>

\* lines 135-149: switch (retv)
GetcSwitch ==
    /\ pc = "switch"
    /\ uart_read' = IF ReadTerminated(retv) THEN FALSE ELSE uart_read
    /\ ch' = IF ChWritten(retv) THEN in_byte ELSE ch
    /\ ch_writes' = IF ChWritten(retv) THEN ch_writes + 1 ELSE ch_writes
    /\ steps' = IF ReadTerminated(retv)
                THEN Append(steps, "terminate") ELSE steps
    /\ pc' = "disable"
    /\ UNCHANGED <<xmodem_io_rx_state, in_byte, alarm_en, rtc_alarm, retv,
                   calls, events, ch0, rets, alarm_owner, read_owner>>

\* line 152: rtc_cfg.alarm_en = false
GetcDisable ==
    /\ pc = "disable"
    /\ alarm_en' = AlarmEnAtExit(retv)
    /\ pc' = "rtc_disarm"
    /\ UNCHANGED <<xmodem_io_rx_state, in_byte, rtc_alarm, uart_read, retv,
                   ch, hist>>

\* line 153: qm_rtc_set_config(QM_RTC_0, &rtc_cfg) disables the alarm
GetcDisarm ==
    /\ pc = "rtc_disarm"
    /\ rtc_alarm' = alarm_en
    /\ alarm_owner' = IF alarm_en THEN calls ELSE alarm_owner
    /\ steps' = Append(steps, IF alarm_en THEN "arm" ELSE "disarm")
    /\ pc' = "ret"
    /\ UNCHANGED <<xmodem_io_rx_state, in_byte, alarm_en, uart_read, retv,
                   ch, calls, events, ch_writes, ch0, rets, read_owner>>

\* line 155: return retv
GetcReturn ==
    /\ pc = "ret"
    /\ rets' = Append(rets, <<retv, ch>>)
    /\ pc' = "idle"
    /\ UNCHANGED <<xmodem_io_rx_state, in_byte, alarm_en, rtc_alarm,
                   uart_read, retv, ch, calls, events, ch_writes, ch0,
                   alarm_owner, read_owner, steps>>

\* UART interrupt: the pending one-byte read completes with byte b.
UartRxDone ==
    /\ uart_read
    /\ \E b \in Bytes :
        /\ in_byte' = b
        /\ events' = Append(events, [k |-> "rx", v |-> b, ph |-> Phase(pc),
                                     own |-> read_owner])
    /\ uart_read' = FALSE
    /\ xmodem_io_rx_state' = uart_callback(0)
    /\ UNCHANGED <<pc, alarm_en, rtc_alarm, retv, ch, calls, ch_writes, ch0,
                   rets, alarm_owner, read_owner, steps>>

\* UART interrupt: the pending read ends with a line fault e < 0.
UartRxError ==
    /\ uart_read
    /\ \E e \in ErrCodes :
        /\ xmodem_io_rx_state' = uart_callback(e)
        /\ events' = Append(events, [k |-> "err", v |-> e, ph |-> Phase(pc),
                                     own |-> read_owner])
    /\ uart_read' = FALSE
    /\ UNCHANGED <<pc, in_byte, alarm_en, rtc_alarm, retv, ch, calls,
                   ch_writes, ch0, rets, alarm_owner, read_owner, steps>>

\* RTC interrupt: the programmed one-shot alarm expires.
RtcAlarm ==
    /\ rtc_alarm
    /\ rtc_alarm' = FALSE
    /\ xmodem_io_rx_state' = rtc_callback
    /\ events' = Append(events, [k |-> "rtc", v |-> 0, ph |-> Phase(pc),
                                 own |-> alarm_owner])
    /\ UNCHANGED <<pc, in_byte, alarm_en, uart_read, retv, ch, calls,
                   ch_writes, ch0, rets, alarm_owner, read_owner, steps>>

Caller ==
    \/ GetcEnter
    \/ GetcArm
    \/ GetcReset
    \/ GetcRead
    \/ GetcPoll
    \/ GetcSwitch
    \/ GetcDisable
    \/ GetcDisarm
    \/ GetcReturn

Next ==
    \/ GetcEnter
    \/ GetcArm
    \/ GetcReset
    \/ GetcRead
    \/ GetcPoll
    \/ GetcSwitch
    \/ GetcDisable
    \/ GetcDisarm
    \/ GetcReturn
    \/ UartRxDone
    \/ UartRxError
    \/ RtcAlarm

Spec == Init /\ [][Next]_vars

\* The caller keeps executing, and a programmed alarm expires; a byte or a
\* line fault need never arrive.
FairSpec == Spec /\ WF_vars(Caller) /\ WF_vars(RtcAlarm)

\* ------------------------------------------------ history of the call
RxIdx == {i \in DOMAIN events : events[i].k = "rx"}
ErrIdx == {i \in DOMAIN events : events[i].k = "err"}
RtcIdx == {i \in DOMAIN events : events[i].k = "rtc"}
UartIdx == RxIdx \cup ErrIdx

\* The callbacks that ran after the reset and before the read of the cell
\* that left the poll loop; the last of them is the one that read sees.
WaitIdx == {i \in DOMAIN events : events[i].ph = "wait"}
IsLastWait(i) == i \in WaitIdx /\ \A j \in WaitIdx : j <= i

\* ------------------------------------------------------------------ C1
\* C1: every call to xmodem_io_getc eventually returns, whatever the
\* interleaving of the two callbacks, even if no byte ever arrives.
C1_EveryCallReturns == (pc # "idle") ~> (pc = "idle")

\* ------------------------------------------------------------------ C2
\* C2: if the UART callback delivers a byte without error before the alarm
\* fires in a call, the call returns STATE_UART_RX_DONE with that byte in *ch.
C2_ByteBeforeAlarmIsReturned ==
    pc = "ret" =>
        \A i \in RxIdx :
            (\A j \in RtcIdx : i < j) =>
                retv = STATE_UART_RX_DONE /\ ch = events[i].v

\* ------------------------------------------------------------------ C3
\* C3: if the alarm fires in a call before any UART completion, the call
\* returns STATE_TIMEOUT, and a byte of a cancelled attempt is never
\* delivered to, nor returned by, a later call.
C3_AlarmFirstReturnsTimeout ==
    /\ pc = "ret" =>
          \A j \in RtcIdx : (\A i \in UartIdx : j < i) => retv = STATE_TIMEOUT
    /\ \A i \in UartIdx : events[i].own = calls

C5_FirstWriterWins ==
    [][(/\ Phase(pc) \in {"wait", "post"}
        /\ xmodem_io_rx_state # STATE_WAITING
        /\ pc' = pc)
       => xmodem_io_rx_state' = xmodem_io_rx_state]_vars

\* ------------------------------------------------------------------ C6
BothFired == UartIdx # {} /\ RtcIdx # {}

\* C6 as claimed: when both the UART completion and the alarm fire in a
\* call, it returns byte-ready or timed-out and writes *ch iff byte-ready.
C6_BothFiredByteOrTimeout ==
    (pc = "ret" /\ BothFired) =>
        /\ retv \in {STATE_UART_RX_DONE, STATE_TIMEOUT}
        /\ (ch_writes = 1) <=> (retv = STATE_UART_RX_DONE)

\* C6 as amended: when both fire, the call cannot stay in the poll loop and
\* returns one terminal outcome: byte-ready or timed-out if the completion
\* delivered a byte, line-error or timed-out if it reported a fault; *ch is
\* written iff the outcome is byte-ready.
C6_BothFiredOneOutcome ==
    BothFired =>
        /\ pc = "poll" => xmodem_io_rx_state # STATE_WAITING
        /\ pc = "ret" =>
              /\ RxIdx # {} => retv \in {STATE_UART_RX_DONE, STATE_TIMEOUT}
              /\ ErrIdx # {} => retv \in {STATE_UART_ERROR, STATE_TIMEOUT}
              /\ (ch_writes = 1) <=> (retv = STATE_UART_RX_DONE)
              /\ ch_writes = 0 => ch = ch0

C6_Witness ==
    /\ pc = "ret"
    /\ \E i \in RxIdx : \E j \in RtcIdx :
          i < j /\ events[j].ph = "wait" /\ ch0 # events[i].v
    /\ retv = STATE_TIMEOUT
    /\ ch = ch0

\* ------------------------------------------------------------------ C7
\* C7: whenever no call is in progress the alarm is disabled, in
\* rtc_cfg.alarm_en and in the RTC, so rtc_callback never runs between
\* calls, and an alarm programmed by one call never expires in a later one.
C7_AlarmOffBetweenCalls ==
    /\ pc = "idle" => ~alarm_en /\ ~rtc_alarm
    /\ rtc_alarm => alarm_owner = calls
    /\ \A j \in RtcIdx : events[j].own = calls /\ events[j].ph # "idle"

C7_Witness ==
    /\ pc = "idle"
    /\ Len(rets) = 2
    /\ rets[1][1] = STATE_TIMEOUT
    /\ rets[2][1] = STATE_UART_ERROR

\* ------------------------------------------------------------------ C8
\* C8: a call that returns STATE_UART_RX_DONE stores in *ch the byte its
\* own read delivered during its own wait, whatever the previous call did.
C8_OwnByteReturned ==
    (pc = "ret" /\ retv = STATE_UART_RX_DONE) =>
        \E i \in RxIdx :
            /\ events[i].own = calls
            /\ events[i].ph = "wait"
            /\ ch = events[i].v

C8_Witness ==
    /\ pc = "ret"
    /\ calls = 2
    /\ rets = << <<STATE_UART_RX_DONE, 65>> >>
    /\ retv = STATE_UART_RX_DONE
    /\ ch = 66

\* ------------------------------------------------------------------ C9
\* C9: *ch is stored at most once per call and only on byte-ready; a call
\* returning timeout or line error leaves *ch as it was at entry.
C9_ChWrittenOnlyOnSuccess ==
    /\ ch_writes <= 1
    /\ ch_writes = 1 => retv = STATE_UART_RX_DONE
    /\ (pc = "ret" /\ retv # STATE_UART_RX_DONE) =>
          ch_writes = 0 /\ ch = ch0

C9_Witness ==
    /\ pc = "ret"
    /\ retv = STATE_TIMEOUT
    /\ ch_writes = 0
    /\ ch0 \in Bytes
    /\ ch = ch0
    /\ in_byte \in Bytes \ {ch}

\* ----------------------------------------------------------------- C10
\* C10: the cell is reset to STATE_WAITING before the alarm is programmed,
\* so no expiry of the current attempt's alarm is erased by the reset.
C10_ResetBeforeArm ==
    /\ pc = "reset" => alarm_owner # calls
    /\ Phase(pc) \in {"wait", "post"} =>
          \A j \in RtcIdx : events[j].ph # "pre"

\* --------------------------------------- driver calls of the current call
StepIdx(op) == {i \in DOMAIN steps : steps[i] = op}
Cnt(op) == Cardinality(StepIdx(op))

Terminal == {STATE_UART_RX_DONE, STATE_UART_ERROR, STATE_TIMEOUT}

\* The value a recorded callback stored in the cell.
EvVal(e) ==
    CASE e.k = "rx" -> STATE_UART_RX_DONE
      [] e.k = "err" -> STATE_UART_ERROR
      [] OTHER -> STATE_TIMEOUT

\* ----------------------------------------------------------------- C11
\* C11: the cell is reset to STATE_WAITING before the asynchronous read is
\* started: the call starts no read before the reset, no UART completion
\* of the current attempt precedes (and is erased by) the reset, and the
\* poll loop is left only on a value stored by a callback that ran after
\* the reset of this call, never on a previous call's value.
C11_ResetBeforeRead ==
    /\ Phase(pc) = "pre" => Cnt("read") = 0
    /\ \A i \in UartIdx : events[i].own = calls => events[i].ph # "pre"
    /\ Phase(pc) = "post" =>
          /\ retv # STATE_WAITING
          /\ \E i \in WaitIdx : IsLastWait(i) /\ retv = EvVal(events[i])

C11_Witness ==
    /\ pc = "switch"
    /\ calls = 2
    /\ rets[1][1] = STATE_UART_RX_DONE
    /\ retv = STATE_UART_ERROR
    /\ \E i \in ErrIdx : IsLastWait(i)

\* ----------------------------------------------------------------- C12
\* C12: in every call the cell leaves STATE_WAITING for a terminal value
\* exactly once: it does so after the reset (at least once), and only by
\* the first callback after the reset (at most once); STATE_WAITING is
\* stored only by the reset of xmodem_io_getc, never by a callback; between
\* calls, after the first call, the cell holds a terminal value.
C12_WaitingLeftOncePerCall ==
    /\ [](pc = "read" => <>(xmodem_io_rx_state \in Terminal))
    /\ []((pc = "idle" /\ calls >= 1) => xmodem_io_rx_state \in Terminal)
    /\ [][(xmodem_io_rx_state = STATE_WAITING
           /\ xmodem_io_rx_state' # STATE_WAITING)
          => (/\ pc' = pc
              /\ Phase(pc) = "wait"
              /\ WaitIdx = {}
              /\ xmodem_io_rx_state' \in Terminal)]_vars
    /\ [][(xmodem_io_rx_state # STATE_WAITING
           /\ xmodem_io_rx_state' = STATE_WAITING)
          => (pc = "reset" /\ pc' = "read")]_vars

\* The safety part of C12 (everything but "at least once"), which holds.
C12_SafetyPart ==
    /\ []((pc = "idle" /\ calls >= 1) => xmodem_io_rx_state \in Terminal)
    /\ [][(xmodem_io_rx_state = STATE_WAITING
           /\ xmodem_io_rx_state' # STATE_WAITING)
          => (/\ pc' = pc
              /\ Phase(pc) = "wait"
              /\ WaitIdx = {}
              /\ xmodem_io_rx_state' \in Terminal)]_vars
    /\ [][(xmodem_io_rx_state # STATE_WAITING
           /\ xmodem_io_rx_state' = STATE_WAITING)
          => (pc = "reset" /\ pc' = "read")]_vars

\* ----------------------------------------------------------------- C13
\* C13: qm_uart_irq_read_terminate is called iff the value the poll loop
\* left on is STATE_TIMEOUT, at most once per call, after the poll loop and
\* before the alarm is disarmed and the call returns.
C13_TerminateIffTimeout ==
    /\ Cnt("terminate") <= 1
    /\ pc \in {"rtc_arm", "reset", "read", "poll", "switch"} =>
          Cnt("terminate") = 0
    /\ pc \in {"disable", "rtc_disarm", "ret"} =>
          (Cnt("terminate") = 1 <=> retv = STATE_TIMEOUT)
    /\ \A i \in StepIdx("terminate") :
          /\ \A j \in StepIdx("disarm") : i < j
          /\ \E j \in StepIdx("poll") : j < i

C13_Witness ==
    /\ pc = "ret"
    /\ retv = STATE_TIMEOUT
    /\ xmodem_io_rx_state = STATE_UART_RX_DONE
    /\ steps = <<"arm", "read", "poll", "terminate", "disarm">>

\* ----------------------------------------------------------------- C14
\* C14: nothing is retried: a call programs the alarm once and starts one
\* read, stays in the poll loop only while the value it read is
\* STATE_WAITING, and returns the value it left the loop on.
C14_NoInternalRetry ==
    /\ Cnt("arm") <= 1 /\ Cnt("read") <= 1
    /\ pc \in {"poll", "switch", "disable", "rtc_disarm", "ret"} =>
          Cnt("arm") = 1 /\ Cnt("read") = 1
    /\ (pc = "poll" /\ Cnt("poll") = 1) => retv = STATE_WAITING
    /\ Phase(pc) = "post" =>
          \E i \in WaitIdx : IsLastWait(i) /\ retv = EvVal(events[i])
    /\ (pc = "idle" /\ calls >= 1) =>
          Len(rets) = calls /\ rets[calls][1] = retv

C14_Witness ==
    /\ pc = "idle"
    /\ calls = 1
    /\ rets[1][1] = STATE_UART_ERROR
    /\ steps = <<"arm", "read", "poll", "disarm">>

\* ----------------------------------------------------------------- C15
\* C15: the value returned by xmodem_io_getc is STATE_UART_RX_DONE,
\* STATE_UART_ERROR or STATE_TIMEOUT, never STATE_WAITING.
C15_ReturnIsTerminal ==
    /\ pc = "ret" => retv \in Terminal
    /\ \A i \in DOMAIN rets : rets[i][1] \in Terminal

C15_Witness ==
    /\ pc = "ret"
    /\ calls = 1
    /\ Len(events) = 2
    /\ events[1].ph = "pre"
    /\ retv = STATE_UART_RX_DONE

\* ----------------------------------------------------------------- C16
\* C16: the result is fixed by the read that leaves the poll loop: a
\* callback that runs after it changes neither retv nor *ch, nor the byte
\* still to be stored in *ch, and the call returns the value of the last
\* callback before that read, with that callback's byte in *ch.
C16_ResultFixedByExitRead ==
    /\ [][(Phase(pc) = "post" /\ pc' = pc) =>
            /\ retv' = retv
            /\ ch' = ch
            /\ retv = STATE_UART_RX_DONE => in_byte' = in_byte]_vars
    /\ [](pc = "ret" =>
            \E i \in WaitIdx :
                /\ IsLastWait(i)
                /\ retv = EvVal(events[i])
                /\ IF events[i].k = "rx"
                      THEN ch = events[i].v /\ ch_writes = 1
                      ELSE ch = ch0 /\ ch_writes = 0)

C16_Witness ==
    /\ pc = "ret"
    /\ retv = STATE_UART_RX_DONE
    /\ xmodem_io_rx_state = STATE_TIMEOUT
    /\ ch \in Bytes
    /\ ch # ch0
    /\ \E j \in RtcIdx : events[j].ph = "post"

\* ----------------------------------------------------------------- C17
\* C17: no read started by a call is still pending when it returns, so a
\* call never starts a read while an earlier one is outstanding, and a
\* pending read always belongs to the current call.
C17_NoReadPendingAtReturn ==
    /\ pc \in {"ret", "idle", "rtc_arm", "reset", "read"} => ~uart_read
    /\ uart_read => read_owner = calls

C17_Witness ==
    /\ pc = "read"
    /\ calls = 2
    /\ rets[1][1] = STATE_TIMEOUT
    /\ read_owner = 1
    /\ ~uart_read

====
